---- MODULE Spec2Model ----
(***************************************************************************)
(* A model of src/common/resource_quantities.cpp: ResourceQuantities (a    *)
(* sorted vector of (name, scalar) pairs with positive scalars) and        *)
(* ResourceLimits (a sorted vector of (name, scalar) pairs, an absent name *)
(* meaning "no limit").                                                    *)
(*                                                                         *)
(* A std::string is a sequence of one-character strings, compared as       *)
(* std::string::operator< compares it.  A Value::Scalar is an integer (a   *)
(* count of the fixed-point unit in which scalars are compared).  A        *)
(* std::vector<pair<string, Value::Scalar>> is a sequence of records       *)
(* [first, second]; the code's indices are kept 0-based through At.        *)
(***************************************************************************)
EXTENDS Integers, Sequences, FiniteSets, TLC

\* ------------------------------------------------------------------ bounds

\* Number of distinct resource names in the operands of the two-operand checks.
NumNames == 3
\* Number of distinct resource names where three operands, or two evolving
\* objects, are enumerated.
FewNames == 2
\* Largest scalar of an enumerated operand and of an argument of add()/set().
MaxVal == 2
\* Largest scalar an evolving ResourceQuantities may accumulate.
MaxSum == 4
\* Largest number of ';'-separated tokens in an enumerated text.
MaxTokens == 3

\* ----------------------------------------------------------------- strings

\* The characters of the model, in ascending byte order.
Alphabet ==
  << " ", "-", "0", "1", "2", "3", "4", "5", "6", "7", "8", "9",
     ":", ";", "[", "]", "c", "m", "x" >>

\* The place of each character in that order.
Code ==
  [ch \in { Alphabet[i] : i \in 1..Len(Alphabet) } |->
     CHOOSE i \in 1..Len(Alphabet) : Alphabet[i] = ch]

Ord(ch) == Code[ch]

RECURSIVE StrLess(_, _)
\* std::string operator<: lexicographic on bytes, a proper prefix is smaller.
StrLess(s, t) ==
  IF t = << >> THEN FALSE
  ELSE IF s = << >> THEN TRUE
  ELSE IF Ord(Head(s)) < Ord(Head(t)) THEN TRUE
  ELSE IF Ord(Head(s)) > Ord(Head(t)) THEN FALSE
  ELSE StrLess(Tail(s), Tail(t))

\* The resource names of the model, ascending: "c" < "c m" < "cm" < "m" < "mc".
NameUniverse ==
  << << "c" >>, << "c", " ", "m" >>, << "c", "m" >>, << "m" >>, << "m", "c" >> >>

NamesUpTo(k) == { NameUniverse[i] : i \in 1..k }

\* ----------------------------------------------------------------- vectors

\* v.at(i), 0-based.
At(v, i) == v[i + 1]

\* v.insert(v.begin() + i, e)
InsertAt(v, i, e) == SubSeq(v, 1, i) \o << e >> \o SubSeq(v, i + 1, Len(v))

\* v.erase(v.begin() + i)
EraseAt(v, i) == SubSeq(v, 1, i) \o SubSeq(v, i + 2, Len(v))

Pair(name, scalar) == [first |-> name, second |-> scalar]

\* ------------------------------------------------------ ResourceQuantities

RECURSIVE QuantitiesGetFrom(_, _, _)
QuantitiesGetFrom(quantities, name, i) ==
  IF i >= Len(quantities) THEN 0
  ELSE IF At(quantities, i).first = name THEN At(quantities, i).second
  ELSE IF StrLess(name, At(quantities, i).first) THEN 0
  ELSE QuantitiesGetFrom(quantities, name, i + 1)

\* ResourceQuantities::get: the scalar of `name`, Value::Scalar() (0) if absent.
QuantitiesGet(quantities, name) == QuantitiesGetFrom(quantities, name, 0)

RECURSIVE AddFrom(_, _, _, _)
AddFrom(quantities, name, scalar, it) ==
  IF it >= Len(quantities) THEN InsertAt(quantities, it, Pair(name, scalar))
  ELSE IF At(quantities, it).first = name
    THEN [quantities EXCEPT ![it + 1].second = @ + scalar]
  ELSE IF StrLess(name, At(quantities, it).first)
    THEN InsertAt(quantities, it, Pair(name, scalar))
  ELSE AddFrom(quantities, name, scalar, it + 1)

\* ResourceQuantities::add (scalar >= 0 is its CHECK_GE precondition).
QuantitiesAdd(quantities, name, scalar) ==
  IF scalar = 0 THEN quantities ELSE AddFrom(quantities, name, scalar, 0)

RECURSIVE QuantitiesContainsWalkNoTail(_, _, _, _)
\* contains without the check of the entries of `right` left after the walk.
QuantitiesContainsWalkNoTail(left, right, leftIndex, rightIndex) ==
  IF leftIndex < Len(left) /\ rightIndex < Len(right)
  THEN LET left_ == At(left, leftIndex)
           right_ == At(right, rightIndex)
       IN IF StrLess(left_.first, right_.first)
            THEN QuantitiesContainsWalkNoTail(left, right, leftIndex + 1, rightIndex)
          ELSE IF StrLess(right_.first, left_.first)
            THEN FALSE
          ELSE IF left_.second < right_.second
            THEN FALSE
          ELSE QuantitiesContainsWalkNoTail(left, right, leftIndex + 1, rightIndex + 1)
  ELSE TRUE

RECURSIVE QuantitiesContainsWalk(_, _, _, _)
QuantitiesContainsWalk(left, right, leftIndex, rightIndex) ==
  IF leftIndex < Len(left) /\ rightIndex < Len(right)
  THEN LET left_ == At(left, leftIndex)
           right_ == At(right, rightIndex)
       IN IF StrLess(left_.first, right_.first)
            THEN QuantitiesContainsWalk(left, right, leftIndex + 1, rightIndex)
          ELSE IF StrLess(right_.first, left_.first)
            THEN FALSE
          ELSE IF left_.second < right_.second
            THEN FALSE
          ELSE QuantitiesContainsWalk(left, right, leftIndex + 1, rightIndex + 1)
  ELSE IF rightIndex < Len(right) THEN FALSE
  ELSE TRUE

\* ResourceQuantities::contains
QuantitiesContains(left, right) == QuantitiesContainsWalk(left, right, 0, 0)

RECURSIVE PlusWalkAppends(_, _, _, _, _)
\* operator+= that appends an entry absent from the left instead of inserting
\* it in order.
PlusWalkAppends(quantities, right, leftIndex, rightIndex, aliased) ==
  LET r == IF aliased THEN quantities ELSE right
  IN IF leftIndex < Len(quantities) /\ rightIndex < Len(r)
     THEN LET left_ == At(quantities, leftIndex)
              right_ == At(r, rightIndex)
          IN IF StrLess(left_.first, right_.first)
               THEN PlusWalkAppends(quantities, right, leftIndex + 1, rightIndex, aliased)
             ELSE IF StrLess(right_.first, left_.first)
               THEN PlusWalkAppends(Append(quantities, right_), right,
                             leftIndex + 1, rightIndex + 1, aliased)
             ELSE PlusWalkAppends(
                    [quantities EXCEPT ![leftIndex + 1].second = @ + right_.second],
                    right, leftIndex + 1, rightIndex + 1, aliased)
     ELSE IF rightIndex < Len(r)
       THEN PlusWalkAppends(Append(quantities, At(r, rightIndex)), right,
                     leftIndex, rightIndex + 1, aliased)
     ELSE quantities

RECURSIVE PlusWalkOverwrites(_, _, _, _, _)
\* operator+= that assigns the right scalar to a matching entry instead of
\* adding it.
PlusWalkOverwrites(quantities, right, leftIndex, rightIndex, aliased) ==
  LET r == IF aliased THEN quantities ELSE right
  IN IF leftIndex < Len(quantities) /\ rightIndex < Len(r)
     THEN LET left_ == At(quantities, leftIndex)
              right_ == At(r, rightIndex)
          IN IF StrLess(left_.first, right_.first)
               THEN PlusWalkOverwrites(quantities, right, leftIndex + 1, rightIndex, aliased)
             ELSE IF StrLess(right_.first, left_.first)
               THEN PlusWalkOverwrites(InsertAt(quantities, leftIndex, right_), right,
                             leftIndex + 1, rightIndex + 1, aliased)
             ELSE PlusWalkOverwrites(
                    [quantities EXCEPT ![leftIndex + 1].second = right_.second],
                    right, leftIndex + 1, rightIndex + 1, aliased)
     ELSE IF rightIndex < Len(r)
       THEN PlusWalkOverwrites(Append(quantities, At(r, rightIndex)), right,
                     leftIndex, rightIndex + 1, aliased)
     ELSE quantities

RECURSIVE PlusWalk(_, _, _, _, _)
\* The loops of operator+=.  `aliased` says that `right` is the receiver itself
\* (x += x), so that each read of `right` sees the receiver as modified so far.
PlusWalk(quantities, right, leftIndex, rightIndex, aliased) ==
  LET r == IF aliased THEN quantities ELSE right
  IN IF leftIndex < Len(quantities) /\ rightIndex < Len(r)
     THEN LET left_ == At(quantities, leftIndex)
              right_ == At(r, rightIndex)
          IN IF StrLess(left_.first, right_.first)
               THEN PlusWalk(quantities, right, leftIndex + 1, rightIndex, aliased)
             ELSE IF StrLess(right_.first, left_.first)
               THEN PlusWalk(InsertAt(quantities, leftIndex, right_), right,
                             leftIndex + 1, rightIndex + 1, aliased)
             ELSE PlusWalk(
                    [quantities EXCEPT ![leftIndex + 1].second = @ + right_.second],
                    right, leftIndex + 1, rightIndex + 1, aliased)
     ELSE IF rightIndex < Len(r)
       THEN PlusWalk(Append(quantities, At(r, rightIndex)), right,
                     leftIndex, rightIndex + 1, aliased)
     ELSE quantities

\* ResourceQuantities::operator+=
PlusAssign(quantities, right, aliased) == PlusWalk(quantities, right, 0, 0, aliased)

RECURSIVE MinusWalkKeepsZero(_, _, _, _, _)
\* operator-= that erases an entry only when it is smaller, keeping a zero.
MinusWalkKeepsZero(quantities, right, leftIndex, rightIndex, aliased) ==
  LET r == IF aliased THEN quantities ELSE right
  IN IF leftIndex < Len(quantities) /\ rightIndex < Len(r)
     THEN LET left_ == At(quantities, leftIndex)
              right_ == At(r, rightIndex)
          IN IF StrLess(left_.first, right_.first)
               THEN MinusWalkKeepsZero(quantities, right, leftIndex + 1, rightIndex, aliased)
             ELSE IF StrLess(right_.first, left_.first)
               THEN MinusWalkKeepsZero(quantities, right, leftIndex, rightIndex + 1, aliased)
             ELSE IF left_.second < right_.second
               THEN MinusWalkKeepsZero(EraseAt(quantities, leftIndex), right,
                              leftIndex, rightIndex + 1, aliased)
             ELSE MinusWalkKeepsZero(
                    [quantities EXCEPT ![leftIndex + 1].second = @ - right_.second],
                    right, leftIndex + 1, rightIndex + 1, aliased)
     ELSE quantities

RECURSIVE MinusWalkUnclamped(_, _, _, _, _)
\* operator-= that subtracts in place whatever the scalars, never erasing.
MinusWalkUnclamped(quantities, right, leftIndex, rightIndex, aliased) ==
  LET r == IF aliased THEN quantities ELSE right
  IN IF leftIndex < Len(quantities) /\ rightIndex < Len(r)
     THEN LET left_ == At(quantities, leftIndex)
              right_ == At(r, rightIndex)
          IN IF StrLess(left_.first, right_.first)
               THEN MinusWalkUnclamped(quantities, right, leftIndex + 1, rightIndex, aliased)
             ELSE IF StrLess(right_.first, left_.first)
               THEN MinusWalkUnclamped(quantities, right, leftIndex, rightIndex + 1, aliased)
             ELSE MinusWalkUnclamped(
                    [quantities EXCEPT ![leftIndex + 1].second = @ - right_.second],
                    right, leftIndex + 1, rightIndex + 1, aliased)
     ELSE quantities

RECURSIVE MinusWalk(_, _, _, _, _)
MinusWalk(quantities, right, leftIndex, rightIndex, aliased) ==
  LET r == IF aliased THEN quantities ELSE right
  IN IF leftIndex < Len(quantities) /\ rightIndex < Len(r)
     THEN LET left_ == At(quantities, leftIndex)
              right_ == At(r, rightIndex)
          IN IF StrLess(left_.first, right_.first)
               THEN MinusWalk(quantities, right, leftIndex + 1, rightIndex, aliased)
             ELSE IF StrLess(right_.first, left_.first)
               THEN MinusWalk(quantities, right, leftIndex, rightIndex + 1, aliased)
             ELSE IF left_.second <= right_.second
               THEN MinusWalk(EraseAt(quantities, leftIndex), right,
                              leftIndex, rightIndex + 1, aliased)
             ELSE MinusWalk(
                    [quantities EXCEPT ![leftIndex + 1].second = @ - right_.second],
                    right, leftIndex + 1, rightIndex + 1, aliased)
     ELSE quantities

\* ResourceQuantities::operator-=
MinusAssign(quantities, right, aliased) == MinusWalk(quantities, right, 0, 0, aliased)

\* ResourceQuantities::operator+ : += on a copy of the receiver.
Plus(left, right) == PlusAssign(left, right, FALSE)

\* ResourceQuantities::operator- : -= on a copy of the receiver.
Minus(left, right) == MinusAssign(left, right, FALSE)

\* ---------------------------------------------------------- ResourceLimits

\* Option<Value::Scalar>
None == [isSome |-> FALSE, value |-> 0]

Some(scalar) == [isSome |-> TRUE, value |-> scalar]

RECURSIVE LimitsGetFrom(_, _, _)
LimitsGetFrom(limits, name, i) ==
  IF i >= Len(limits) THEN None
  ELSE IF At(limits, i).first = name THEN Some(At(limits, i).second)
  ELSE IF StrLess(name, At(limits, i).first) THEN None
  ELSE LimitsGetFrom(limits, name, i + 1)

\* ResourceLimits::get: the limit of `name`, None() if the name has no limit.
LimitsGet(limits, name) == LimitsGetFrom(limits, name, 0)

RECURSIVE SetFromNoOverwrite(_, _, _, _)
\* set that never finds the name and always inserts.
SetFromNoOverwrite(limits, name, scalar, it) ==
  IF it >= Len(limits) THEN InsertAt(limits, it, Pair(name, scalar))
  ELSE IF StrLess(name, At(limits, it).first)
    THEN InsertAt(limits, it, Pair(name, scalar))
  ELSE SetFromNoOverwrite(limits, name, scalar, it + 1)

RECURSIVE SetFrom(_, _, _, _)
SetFrom(limits, name, scalar, it) ==
  IF it >= Len(limits) THEN InsertAt(limits, it, Pair(name, scalar))
  ELSE IF At(limits, it).first = name
    THEN [limits EXCEPT ![it + 1].second = scalar]
  ELSE IF StrLess(name, At(limits, it).first)
    THEN InsertAt(limits, it, Pair(name, scalar))
  ELSE SetFrom(limits, name, scalar, it + 1)

\* ResourceLimits::set: no check of the scalar's sign.
LimitsSet(limits, name, scalar) == SetFrom(limits, name, scalar, 0)

RECURSIVE LimitsContainsWalkNoTail(_, _, _, _)
\* contains without the check of the limits of `left` left after the walk.
LimitsContainsWalkNoTail(left, right, leftIndex, rightIndex) ==
  IF leftIndex < Len(left) /\ rightIndex < Len(right)
  THEN LET left_ == At(left, leftIndex)
           right_ == At(right, rightIndex)
       IN IF StrLess(left_.first, right_.first)
            THEN FALSE
          ELSE IF StrLess(right_.first, left_.first)
            THEN LimitsContainsWalkNoTail(left, right, leftIndex, rightIndex + 1)
          ELSE IF left_.second < right_.second
            THEN FALSE
          ELSE LimitsContainsWalkNoTail(left, right, leftIndex + 1, rightIndex + 1)
  ELSE TRUE

RECURSIVE LimitsContainsWalkReversed(_, _, _, _)
\* contains with the comparison of two limits reversed.
LimitsContainsWalkReversed(left, right, leftIndex, rightIndex) ==
  IF leftIndex < Len(left) /\ rightIndex < Len(right)
  THEN LET left_ == At(left, leftIndex)
           right_ == At(right, rightIndex)
       IN IF StrLess(left_.first, right_.first)
            THEN FALSE
          ELSE IF StrLess(right_.first, left_.first)
            THEN LimitsContainsWalkReversed(left, right, leftIndex, rightIndex + 1)
          ELSE IF left_.second > right_.second
            THEN FALSE
          ELSE LimitsContainsWalkReversed(left, right, leftIndex + 1, rightIndex + 1)
  ELSE IF leftIndex < Len(left) THEN FALSE
  ELSE TRUE

RECURSIVE LimitsContainsWalk(_, _, _, _)
LimitsContainsWalk(left, right, leftIndex, rightIndex) ==
  IF leftIndex < Len(left) /\ rightIndex < Len(right)
  THEN LET left_ == At(left, leftIndex)
           right_ == At(right, rightIndex)
       IN IF StrLess(left_.first, right_.first)
            THEN FALSE
          ELSE IF StrLess(right_.first, left_.first)
            THEN LimitsContainsWalk(left, right, leftIndex, rightIndex + 1)
          ELSE IF left_.second < right_.second
            THEN FALSE
          ELSE LimitsContainsWalk(left, right, leftIndex + 1, rightIndex + 1)
  ELSE IF leftIndex < Len(left) THEN FALSE
  ELSE TRUE

\* ResourceLimits::contains(const ResourceLimits&)
LimitsContains(left, right) == LimitsContainsWalk(left, right, 0, 0)

RECURSIVE LimitsContainsQuantitiesStrict(_, _, _)
\* contains that also rejects a quantity equal to its limit.
LimitsContainsQuantitiesStrict(limits, quantities, i) ==
  IF i >= Len(quantities) THEN TRUE
  ELSE LET limit == LimitsGet(limits, At(quantities, i).first)
       IN IF limit.isSome /\ limit.value <= At(quantities, i).second
            THEN FALSE
          ELSE LimitsContainsQuantitiesStrict(limits, quantities, i + 1)

RECURSIVE LimitsContainsQuantitiesFrom(_, _, _)
LimitsContainsQuantitiesFrom(limits, quantities, i) ==
  IF i >= Len(quantities) THEN TRUE
  ELSE LET limit == LimitsGet(limits, At(quantities, i).first)
       IN IF limit.isSome /\ limit.value < At(quantities, i).second
            THEN FALSE
          ELSE LimitsContainsQuantitiesFrom(limits, quantities, i + 1)

\* ResourceLimits::contains(const ResourceQuantities&)
LimitsContainsQuantities(limits, quantities) ==
  LimitsContainsQuantitiesFrom(limits, quantities, 0)

\* ----------------------------------------------------------------- parsing

RECURSIVE TokenizeFrom(_, _, _, _, _)
TokenizeFrom(s, delims, i, token, tokens) ==
  IF i > Len(s)
    THEN IF token = << >> THEN tokens ELSE Append(tokens, token)
  ELSE IF s[i] \in delims
    THEN TokenizeFrom(s, delims, i + 1, << >>,
                      IF token = << >> THEN tokens ELSE Append(tokens, token))
  ELSE TokenizeFrom(s, delims, i + 1, Append(token, s[i]), tokens)

\* strings::tokenize: the maximal runs of non-delimiter characters, in order.
Tokenize(s, delims) == TokenizeFrom(s, delims, 1, << >>, << >>)

RECURSIVE TrimLeft(_)
TrimLeft(s) ==
  IF s # << >> /\ Head(s) = " " THEN TrimLeft(Tail(s)) ELSE s

RECURSIVE TrimRight(_)
TrimRight(s) ==
  IF s # << >> /\ s[Len(s)] = " " THEN TrimRight(SubSeq(s, 1, Len(s) - 1)) ELSE s

\* strings::trim: the whitespace at both ends removed, the inner kept.
Trim(s) == TrimRight(TrimLeft(s))

Digits == { "0", "1", "2", "3", "4", "5", "6", "7", "8", "9" }

DigitValue(ch) == Ord(ch) - Ord("0")

RECURSIVE Decimal(_, _)
Decimal(s, acc) ==
  IF s = << >> THEN acc ELSE Decimal(Tail(s), acc * 10 + DigitValue(Head(s)))

IsDecimal(s) == s # << >> /\ \A i \in 1..Len(s) : s[i] \in Digits

RemoveSpaces(s) == SelectSeq(s, LAMBDA ch : ch # " ")

RECURSIVE BracketsMatchFrom(_, _, _)
BracketsMatchFrom(s, i, depth) ==
  IF i > Len(s) THEN depth = 0
  ELSE IF s[i] = "[" THEN BracketsMatchFrom(s, i + 1, depth + 1)
  ELSE IF s[i] = "]" THEN depth > 0 /\ BracketsMatchFrom(s, i + 1, depth - 1)
  ELSE BracketsMatchFrom(s, i + 1, depth)

\* Try<Value>
ValueError == [isError |-> TRUE, type |-> "NONE", scalar |-> 0]

Value(type, scalar) == [isError |-> FALSE, type |-> type, scalar |-> scalar]

\* values::parse: spaces removed; a number is a SCALAR, a bracketed text is
\* RANGES, any other text is TEXT, an empty text or unmatched brackets fail.
ValuesParse(text) ==
  LET temp == RemoveSpaces(text)
  IN IF temp = << >> THEN ValueError
     ELSE IF ~BracketsMatchFrom(temp, 1, 0) THEN ValueError
     ELSE IF Head(temp) = "[" THEN Value("RANGES", 0)
     ELSE IF \E i \in 1..Len(temp) : temp[i] = "[" THEN ValueError
     ELSE IF IsDecimal(temp) THEN Value("SCALAR", Decimal(temp, 0))
     ELSE IF Head(temp) = "-" /\ IsDecimal(Tail(temp))
       THEN Value("SCALAR", 0 - Decimal(Tail(temp), 0))
     ELSE Value("TEXT", 0)

\* Try<ResourceQuantities>, Try<ResourceLimits>
Error(message) == [isError |-> TRUE, error |-> message, value |-> << >>]

Ok(value) == [isError |-> FALSE, error |-> "", value |-> value]

RECURSIVE QuantitiesFromTokens(_, _, _)
QuantitiesFromTokens(tokens, i, result) ==
  IF i >= Len(tokens) THEN Ok(result)
  ELSE LET pair == Tokenize(At(tokens, i), {":"})
       IN IF Len(pair) # 2 THEN Error("missing or extra ':'")
          ELSE LET value == ValuesParse(pair[2])
               IN IF value.isError THEN Error("parse")
                  ELSE IF value.type # "SCALAR"
                    THEN Error("only scalar values are allowed")
                  ELSE IF value.scalar < 0
                    THEN Error("negative values are not allowed")
                  ELSE IF value.scalar > 0
                    THEN QuantitiesFromTokens(tokens, i + 1,
                           QuantitiesAdd(result, Trim(pair[1]), value.scalar))
                  ELSE QuantitiesFromTokens(tokens, i + 1, result)

\* ResourceQuantities::fromString
QuantitiesFromString(text) == QuantitiesFromTokens(Tokenize(text, {";"}), 0, << >>)

RECURSIVE LimitsFromTokensNoDuplicateCheck(_, _, _)
\* fromString without the check for a name already set.
LimitsFromTokensNoDuplicateCheck(tokens, i, result) ==
  IF i >= Len(tokens) THEN Ok(result)
  ELSE LET pair == Tokenize(At(tokens, i), {":"})
       IN IF Len(pair) # 2 THEN Error("missing or extra ':'")
          ELSE LET value == ValuesParse(pair[2])
               IN IF value.isError THEN Error("parse")
                  ELSE IF value.type # "SCALAR"
                    THEN Error("only scalar values are allowed")
                  ELSE IF value.scalar < 0
                    THEN Error("negative values are not allowed")
                  ELSE LET name == Trim(pair[1])
                       IN LimitsFromTokensNoDuplicateCheck(tokens, i + 1,
                                 LimitsSet(result, name, value.scalar))

RECURSIVE LimitsFromTokens(_, _, _)
LimitsFromTokens(tokens, i, result) ==
  IF i >= Len(tokens) THEN Ok(result)
  ELSE LET pair == Tokenize(At(tokens, i), {":"})
       IN IF Len(pair) # 2 THEN Error("missing or extra ':'")
          ELSE LET value == ValuesParse(pair[2])
               IN IF value.isError THEN Error("parse")
                  ELSE IF value.type # "SCALAR"
                    THEN Error("only scalar values are allowed")
                  ELSE IF value.scalar < 0
                    THEN Error("negative values are not allowed")
                  ELSE LET name == Trim(pair[1])
                       IN IF LimitsGet(result, name) # None
                            THEN Error("duplicate names are not allowed")
                          ELSE LimitsFromTokens(tokens, i + 1,
                                 LimitsSet(result, name, value.scalar))

\* ResourceLimits::fromString
LimitsFromString(text) == LimitsFromTokens(Tokenize(text, {";"}), 0, << >>)

\* ------------------------------------------------------------ construction

RECURSIVE QuantitiesFromMap(_, _, _)
\* ResourceQuantities(map): add() of every entry of the map, in its iteration
\* order (`map` is that order, a sequence of pairs).
QuantitiesFromMap(map, i, result) ==
  IF i >= Len(map) THEN result
  ELSE QuantitiesFromMap(map, i + 1,
         QuantitiesAdd(result, At(map, i).first, At(map, i).second))

RECURSIVE LimitsFromMap(_, _, _)
\* ResourceLimits(map): set() of every entry of the map.
LimitsFromMap(map, i, result) ==
  IF i >= Len(map) THEN result
  ELSE LimitsFromMap(map, i + 1,
         LimitsSet(result, At(map, i).first, At(map, i).second))

RECURSIVE MapEntries(_, _, _)
\* The entries of a map over the first k names (f[i] = absent: no entry for name
\* i), iterated from the largest name down.
MapEntries(f, k, absent) ==
  IF k = 0 THEN << >>
  ELSE (IF f[k] = absent THEN << >> ELSE << Pair(NameUniverse[k], f[k]) >>)
       \o MapEntries(f, k - 1, absent)

\* The ResourceQuantities built from the maps over the first k names.
QuantitySets(k) ==
  { QuantitiesFromMap(MapEntries(f, k, -1), 0, << >>) : f \in [1..k -> 0..MaxVal] }

\* The ResourceLimits built from the maps over the first k names with scalars >= 0.
LimitSets(k) ==
  { LimitsFromMap(MapEntries(f, k, -1), 0, << >>) : f \in [1..k -> -1..MaxVal] }

\* ------------------------------------------------------------------- texts

Join(s, t) == IF s = << >> THEN t ELSE s \o << ";" >> \o t

\* The tokens of the enumerated texts: names with and without surrounding and
\* inner whitespace, zero, positive and negative scalars, a text, a range, an
\* unmatched bracket, a token without ':' and one with two.
TokenTexts ==
  { << "c", ":", "0" >>,
    << "c", ":", "1" >>,
    << " ", "c", " ", ":", " ", "2" >>,
    << "c", " ", "m", ":", "1" >>,
    << "m", ":", "2" >>,
    << "m", ":", "0" >>,
    << "c", ":", "-", "1" >>,
    << "c", ":", "x" >>,
    << "m", ":", "[", "1", "-", "2", "]" >>,
    << "m", ":", "[", "1" >>,
    << "c" >>,
    << "c", ":", "1", ":", "2" >> }

RECURSIVE TextsOf(_)
\* The texts of at most n tokens, joined by ';'.
TextsOf(n) ==
  IF n = 0 THEN { << >> }
  ELSE TextsOf(n - 1) \cup { Join(s, t) : s \in TextsOf(n - 1), t \in TokenTexts }

Texts == TextsOf(MaxTokens)

\* ------------------------------------------------------------------- state

VARIABLES
  q,     \* the ResourceQuantities objects a, b, c
  l,     \* the ResourceLimits objects l1, l2
  text,  \* the text given to fromString
  op,    \* the last call made
  res    \* what the last call returned (its receiver before, for a mutation)

vars == << q, l, text, op, res >>

NoQuantities == [a |-> << >>, b |-> << >>, c |-> << >>]

NoLimits == [l1 |-> << >>, l2 |-> << >>]

\* Every scalar of the entries is at most `bound`.
Within(entries, bound) == \A i \in 1..Len(entries) : entries[i].second <= bound

\* The results of fromString on the enumerated texts.
ParsedQuantities == { QuantitiesFromString(t) : t \in Texts }

ParsedLimits == { LimitsFromString(t) : t \in Texts }

\* ------------------------------------ the life of a ResourceQuantities (Spec)

Init ==
  /\ q = NoQuantities
  /\ l = NoLimits
  /\ text = << >>
  /\ op = "none"
  /\ res = "none"

\* The object a becomes `after` by the call `call`; it stops accumulating at
\* MaxSum.  res keeps the number of entries it had before the call.
Mutate(after, call) ==
  /\ Within(after, MaxSum)
  /\ q' = [q EXCEPT !.a = after]
  /\ op' = call
  /\ res' = Len(q.a)
  /\ UNCHANGED << l, text >>

\* a = ResourceQuantities()
Construct == Mutate(<< >>, "ResourceQuantities")

\* a = ResourceQuantities::fromString(t), when t parses
FromString ==
  \E parsed \in ParsedQuantities :
    /\ ~parsed.isError
    /\ Mutate(parsed.value, "fromString")

\* a.add(name, scalar)
Add ==
  \E name \in NamesUpTo(FewNames), scalar \in 0..MaxVal :
    Mutate(QuantitiesAdd(q.a, name, scalar), "add")

\* a += right, and a += a
AddAssign ==
  \/ \E right \in QuantitySets(FewNames) :
       Mutate(PlusAssign(q.a, right, FALSE), "+=")
  \/ Mutate(PlusAssign(q.a, q.a, TRUE), "+=")

\* a -= right, and a -= a
SubtractAssign ==
  \/ \E right \in QuantitySets(FewNames) :
       Mutate(MinusAssign(q.a, right, FALSE), "-=")
  \/ Mutate(MinusAssign(q.a, q.a, TRUE), "-=")

\* a = a + right, a = left + a
AssignSum ==
  \E other \in QuantitySets(FewNames) :
    \/ Mutate(Plus(q.a, other), "+")
    \/ Mutate(Plus(other, q.a), "+")

\* a = a - right, a = left - a
AssignDifference ==
  \E other \in QuantitySets(FewNames) :
    \/ Mutate(Minus(q.a, other), "-")
    \/ Mutate(Minus(other, q.a), "-")

Next ==
  \/ Construct
  \/ FromString
  \/ Add
  \/ AddAssign
  \/ SubtractAssign
  \/ AssignSum
  \/ AssignDifference

Spec == Init /\ [][Next]_vars

\* ------------------------------------- the life of a ResourceLimits (SpecLimits)

\* l1 becomes `after` by the call `call` with the arguments `args`.
MutateLimits(after, call, name, scalar) ==
  /\ l' = [l EXCEPT !.l1 = after]
  /\ op' = call
  /\ res' = [name |-> name, scalar |-> scalar, before |-> l.l1]
  /\ UNCHANGED << q, text >>

\* l1 = ResourceLimits()
ConstructLimits == MutateLimits(<< >>, "ResourceLimits", << >>, 0)

\* l1 = ResourceLimits::fromString(t), when t parses
LimitsFromStringStep ==
  \E parsed \in ParsedLimits :
    /\ ~parsed.isError
    /\ MutateLimits(parsed.value, "fromString", << >>, 0)

\* l1.set(name, scalar): the scalar is whatever the caller passes.
Set ==
  \E name \in NamesUpTo(NumNames), scalar \in (-1)..MaxVal :
    MutateLimits(LimitsSet(l.l1, name, scalar), "set", name, scalar)

NextLimits == ConstructLimits \/ LimitsFromStringStep \/ Set

SpecLimits == Init /\ [][NextLimits]_vars

\* ------------------------- calls on two ResourceQuantities (SpecAlgebra)

\* A call returns `result`; each behaviour makes one call on its operands.
Call(name, result) ==
  /\ op = "none"
  /\ op' = name
  /\ res' = result
  /\ UNCHANGED << q, l, text >>

InitAlgebra ==
  /\ q \in [a : QuantitySets(NumNames), b : QuantitySets(NumNames), c : { << >> }]
  /\ l = NoLimits
  /\ text = << >>
  /\ op = "none"
  /\ res = "none"

\* a.contains(b)
CallContains == Call("contains", QuantitiesContains(q.a, q.b))

\* a - b
CallMinus == Call("-", Minus(q.a, q.b))

\* (a - b) + b
CallMinusPlus == Call("(a - b) + b", Plus(Minus(q.a, q.b), q.b))

NextAlgebra == CallContains \/ CallMinus \/ CallMinusPlus

SpecAlgebra == InitAlgebra /\ [][NextAlgebra]_vars

\* ----------------------------- sums of three ResourceQuantities (SpecSums)

InitSums ==
  /\ q \in [a : QuantitySets(FewNames), b : QuantitySets(FewNames),
            c : QuantitySets(FewNames)]
  /\ l = NoLimits
  /\ text = << >>
  /\ op = "none"
  /\ res = "none"

\* a + b and b + a
CallCommuted ==
  Call("commuted", [left |-> Plus(q.a, q.b), right |-> Plus(q.b, q.a)])

\* (a + b) + c and a + (b + c)
CallAssociated ==
  Call("associated", [left |-> Plus(Plus(q.a, q.b), q.c),
                      right |-> Plus(q.a, Plus(q.b, q.c))])

\* a + ResourceQuantities()
CallPlusEmpty == Call("a + {}", Plus(q.a, << >>))

NextSums == CallCommuted \/ CallAssociated \/ CallPlusEmpty

SpecSums == InitSums /\ [][NextSums]_vars

\* ------------------- ResourceLimits::contains, either overload (SpecContains)

InitContains ==
  /\ \/ /\ l \in [l1 : LimitSets(NumNames), l2 : LimitSets(NumNames)]
        /\ q = NoQuantities
     \/ /\ l \in [l1 : LimitSets(NumNames), l2 : { << >> }]
        /\ q \in [a : QuantitySets(NumNames), b : { << >> }, c : { << >> }]
  /\ text = << >>
  /\ op = "none"
  /\ res = "none"

\* l1.contains(l2)
CallLimitsContains == Call("contains(limits)", LimitsContains(l.l1, l.l2))

\* l1.contains(a)
CallLimitsContainsQuantities ==
  Call("contains(quantities)", LimitsContainsQuantities(l.l1, q.a))

NextContains == CallLimitsContains \/ CallLimitsContainsQuantities

SpecContains == InitContains /\ [][NextContains]_vars

\* --------------------- two ResourceLimits and a usage (SpecAdmission)

InitAdmission ==
  /\ l \in [l1 : LimitSets(FewNames), l2 : LimitSets(FewNames)]
  /\ q \in [a : QuantitySets(FewNames), b : { << >> }, c : { << >> }]
  /\ text = << >>
  /\ op = "none"
  /\ res = "none"

\* l1.contains(l2), l2.contains(a) and l1.contains(a)
CallAdmit ==
  Call("admit", [outer |-> LimitsContains(l.l1, l.l2),
                 inner |-> LimitsContainsQuantities(l.l2, q.a),
                 whole |-> LimitsContainsQuantities(l.l1, q.a)])

NextAdmission == CallAdmit

SpecAdmission == InitAdmission /\ [][NextAdmission]_vars

\* ------------------------------------------- fromString on a text (SpecParse)

InitParse ==
  /\ q = NoQuantities
  /\ l = NoLimits
  /\ text \in Texts
  /\ op = "none"
  /\ res = "none"

CallQuantitiesFromString ==
  Call("ResourceQuantities::fromString", QuantitiesFromString(text))

CallLimitsFromString ==
  Call("ResourceLimits::fromString", LimitsFromString(text))

NextParse == CallQuantitiesFromString \/ CallLimitsFromString

SpecParse == InitParse /\ [][NextParse]_vars

\* ------------------------------------------------------------- properties

\* The names of the entries, and the scalar stored for a name (0: none stored).
NamesOf(entries) == { entries[i].first : i \in 1..Len(entries) }

ValueOf(entries, name) ==
  IF name \in NamesOf(entries)
    THEN entries[CHOOSE i \in 1..Len(entries) : entries[i].first = name].second
    ELSE 0

\* Strictly ascending by name, hence no name twice.
Ascending(entries) ==
  /\ \A i \in 1..(Len(entries) - 1) : StrLess(entries[i].first, entries[i + 1].first)
  /\ \A i, j \in 1..Len(entries) : i # j => entries[i].first # entries[j].first

Positive(entries) == \A i \in 1..Len(entries) : entries[i].second > 0

NonNegative(entries) == \A i \in 1..Len(entries) : entries[i].second >= 0

\* C1: after any sequence of add, +=, -=, +, - and fromString from the empty
\* ResourceQuantities, the entries are strictly ascending by name (no name
\* twice) and every stored scalar is greater than zero.
C1_QuantitiesWellFormed == Ascending(q.a) /\ Positive(q.a)

\* A -= that removed an entry and left another.
C1_Witness == op = "-=" /\ Len(q.a) < res /\ q.a # << >>

\* C2: a.contains(b) is true exactly when every name of b is in a with a
\* scalar at least b's; the names only in a do not matter, and a name of b that
\* a lacks makes it false.
C2_ContainsIsDominance ==
  op = "contains" =>
    (res <=> \A n \in NamesOf(q.b) :
               n \in NamesOf(q.a) /\ ValueOf(q.a, n) >= ValueOf(q.b, n))

\* a is exhausted before b: the last name of b is beyond every name of a, and
\* every other name of b is covered by a.
C2_Witness ==
  /\ op = "contains"
  /\ res = FALSE
  /\ q.a # << >>
  /\ Len(q.b) > 1
  /\ StrLess(q.a[Len(q.a)].first, q.b[Len(q.b)].first)
  /\ \A i \in 1..(Len(q.b) - 1) :
       /\ q.b[i].first \in NamesOf(q.a)
       /\ ValueOf(q.a, q.b[i].first) >= q.b[i].second

\* C3: a - b holds exactly the names n with a's scalar greater than b's, each
\* with the difference; a name where a's scalar is at most b's is removed, a
\* name only in b has no effect, and a - a is empty.
C3_MinusSaturates ==
  op = "-" =>
    /\ Ascending(res)
    /\ NamesOf(res) = { n \in NamesOf(q.a) \cup NamesOf(q.b) :
                          ValueOf(q.a, n) > ValueOf(q.b, n) }
    /\ \A n \in NamesOf(res) : ValueOf(res, n) = ValueOf(q.a, n) - ValueOf(q.b, n)
    /\ (q.a = q.b => res = << >>)

\* One subtraction with a name clamped, a name reduced and a name only in b.
C3_Witness ==
  /\ op = "-"
  /\ \E n \in NamesOf(q.a) : ValueOf(q.a, n) < ValueOf(q.b, n)
  /\ \E n \in NamesOf(q.b) : ValueOf(q.a, n) > ValueOf(q.b, n)
  /\ \E n \in NamesOf(q.b) : n \notin NamesOf(q.a)

\* C4: a + b = b + a, (a + b) + c = a + (b + c) and a + {} = a, as equality of
\* the entry sequences.
C4_PlusCommutesAssociates ==
  /\ op = "commuted" => res.left = res.right
  /\ op = "associated" => res.left = res.right
  /\ op = "a + {}" => res = q.a

\* Three different non-empty operands, an entry inserted and a scalar summed.
C4_Witness ==
  /\ op = "associated"
  /\ q.a # << >> /\ q.b # << >> /\ q.c # << >>
  /\ NamesOf(q.a) # NamesOf(q.b)
  /\ NamesOf(q.b) # NamesOf(q.c)
  /\ NamesOf(q.a) \cap NamesOf(q.b) \cap NamesOf(q.c) # {}
  /\ Len(res.left) > Len(q.a)

\* C5: l1.contains(l2) is true exactly when every name with a limit in l1 has
\* a limit in l2 that is at most l1's; a name limited only in l2 is skipped.
C5_LimitsContains ==
  op = "contains(limits)" =>
    (res <=> \A n \in NamesOf(l.l1) :
               n \in NamesOf(l.l2) /\ ValueOf(l.l1, n) >= ValueOf(l.l2, n))

\* A true result although l2 limits names that l1 does not.
C5_Witness ==
  /\ op = "contains(limits)"
  /\ res = TRUE
  /\ l.l1 # << >>
  /\ \E n \in NamesOf(l.l2) : n \notin NamesOf(l.l1)

\* C6: l1.contains(a) is true exactly when no name of a has a stored limit
\* smaller than a's scalar; a name without a limit passes, and a limit of zero
\* rejects every a that holds the name.
C6_LimitsAdmit ==
  op = "contains(quantities)" =>
    /\ res <=> ~\E n \in NamesOf(q.a) :
                 n \in NamesOf(l.l1) /\ ValueOf(l.l1, n) < ValueOf(q.a, n)
    /\ (\E n \in NamesOf(q.a) : n \in NamesOf(l.l1) /\ ValueOf(l.l1, n) = 0)
         => res = FALSE

\* A rejection owed to a limit of zero alone, beside a name without a limit.
C6_Witness ==
  /\ op = "contains(quantities)"
  /\ res = FALSE
  /\ \E n \in NamesOf(q.a) : n \notin NamesOf(l.l1)
  /\ \A n \in NamesOf(q.a) :
       (n \in NamesOf(l.l1) /\ ValueOf(l.l1, n) < ValueOf(q.a, n))
         => ValueOf(l.l1, n) = 0

\* The ';'-separated tokens of a text, and what a token says.
TokensOf(t) == Tokenize(t, {";"})

PartsOf(token) == Tokenize(token, {":"})

TokenName(token) == Trim(PartsOf(token)[1])

TokenScalar(token) == ValuesParse(PartsOf(token)[2]).scalar

\* Every token is name:value with a scalar value >= 0.
WellFormedTokens(t) ==
  \A i \in 1..Len(TokensOf(t)) :
    LET parts == PartsOf(TokensOf(t)[i])
    IN /\ Len(parts) = 2
       /\ ~ValuesParse(parts[2]).isError
       /\ ValuesParse(parts[2]).type = "SCALAR"
       /\ ValuesParse(parts[2]).scalar >= 0

\* Some name occurs in more than one token.
RepeatsAName(t) ==
  \E i, j \in 1..Len(TokensOf(t)) :
    i < j /\ TokenName(TokensOf(t)[i]) = TokenName(TokensOf(t)[j])

RECURSIVE SumOfTokens(_, _, _)
\* The sum of the scalars of the tokens i.. of `tokens` that carry `name`.
SumOfTokens(tokens, name, i) ==
  IF i > Len(tokens) THEN 0
  ELSE (IF TokenName(tokens[i]) = name THEN TokenScalar(tokens[i]) ELSE 0)
       + SumOfTokens(tokens, name, i + 1)

\* C7: on a text of well-formed tokens with scalars >= 0 in which a name
\* occurs in more than one token, ResourceLimits::fromString fails with the
\* duplicate-name error and returns no limits, while
\* ResourceQuantities::fromString succeeds and holds for every name the sum of
\* its tokens' scalars (no entry when that sum is zero).
C7_DuplicateNames ==
  (WellFormedTokens(text) /\ RepeatsAName(text)) =>
    /\ op = "ResourceLimits::fromString" =>
         /\ res.isError
         /\ res.error = "duplicate names are not allowed"
         /\ res.value = << >>
    /\ op = "ResourceQuantities::fromString" =>
         /\ ~res.isError
         /\ Ascending(res.value)
         /\ \A i \in 1..Len(TokensOf(text)) :
              LET name == TokenName(TokensOf(text)[i])
              IN /\ ValueOf(res.value, name) = SumOfTokens(TokensOf(text), name, 1)
                 /\ name \in NamesOf(res.value)
                      <=> SumOfTokens(TokensOf(text), name, 1) > 0

\* ResourceLimits::fromString called on a text whose first token stores zero
\* for a name that a later token repeats with other whitespace around it.
C7_Witness ==
  /\ op = "ResourceLimits::fromString"
  /\ WellFormedTokens(text)
  /\ Len(TokensOf(text)) > 1
  /\ TokenScalar(TokensOf(text)[1]) = 0
  /\ \E j \in 2..Len(TokensOf(text)) :
       /\ TokenName(TokensOf(text)[j]) = TokenName(TokensOf(text)[1])
       /\ PartsOf(TokensOf(text)[j])[1] # PartsOf(TokensOf(text)[1])[1]

\* C8: (a - b) + b = a only when no scalar of b exceeds a's scalar for the
\* name; when one does, (a - b) + b differs from a.  (When none does, the two
\* are equal.)
C8_MinusNotInvertible ==
  op = "(a - b) + b" =>
    (res = q.a <=> \A n \in NamesOf(q.b) : ValueOf(q.b, n) <= ValueOf(q.a, n))

\* A name of both a and b clamped by the subtraction, so that the sum differs.
C8_Witness ==
  /\ op = "(a - b) + b"
  /\ res # q.a
  /\ \E n \in NamesOf(q.a) \cap NamesOf(q.b) : ValueOf(q.b, n) > ValueOf(q.a, n)
  /\ \E n \in NamesOf(q.a) \cap NamesOf(q.b) : ValueOf(q.b, n) < ValueOf(q.a, n)

\* What set(name, scalar) did to the entries `before`: an existing name keeps
\* its place and the entry count and takes the scalar, a new name is inserted
\* in order; every other entry is kept as it was.
SetDid(before, name, scalar, after) ==
  /\ Len(after) = (IF name \in NamesOf(before) THEN Len(before) ELSE Len(before) + 1)
  /\ NamesOf(after) = NamesOf(before) \cup { name }
  /\ ValueOf(after, name) = scalar
  /\ \A n \in NamesOf(before) \ { name } : ValueOf(after, n) = ValueOf(before, n)

\* C9 as stated: after any sequence of ResourceLimits(), fromString and
\* set(name, scalar), the entries are strictly ascending by name, every stored
\* scalar is >= 0, and set overwrites an existing name or inserts a new one in
\* order.
C9_AsStated ==
  /\ Ascending(l.l1)
  /\ NonNegative(l.l1)
  /\ op = "set" => SetDid(res.before, res.name, res.scalar, l.l1)

\* C9 amended: the entries are always strictly ascending by name and set
\* overwrites or inserts in order; the stored scalars are >= 0 after
\* ResourceLimits() and fromString, and after a set whose scalar is >= 0 on
\* limits whose scalars were >= 0.
C9_LimitsWellFormed ==
  /\ Ascending(l.l1)
  /\ op = "set" => SetDid(res.before, res.name, res.scalar, l.l1)
  /\ (op = "set" /\ (res.scalar < 0 \/ ~NonNegative(res.before)))
       \/ NonNegative(l.l1)

\* A set of zero over a positive limit in the middle of full limits.
C9_Witness ==
  /\ op = "set"
  /\ res.scalar = 0
  /\ NonNegative(res.before)
  /\ Len(res.before) > 2
  /\ res.name = res.before[2].first
  /\ res.before[2].second > 0
  /\ l.l1[2].second = 0

\* C10: if l1.contains(l2) and l2.contains(a) then l1.contains(a).
C10_ContainsComposes ==
  op = "admit" => ((res.outer /\ res.inner) => res.whole)

\* Both premises hold for different limits that bound a name the usage holds.
C10_Witness ==
  /\ op = "admit"
  /\ res.outer /\ res.inner /\ res.whole
  /\ l.l1 # l.l2
  /\ NamesOf(l.l1) \cap NamesOf(q.a) # {}
  /\ \E n \in NamesOf(l.l1) : ValueOf(l.l1, n) > ValueOf(l.l2, n)

====
